---- MODULE Spec2Model ----
(***************************************************************************)
(* Model of the Prover gateway (src/prover/src/main.rs): the HTTP handlers *)
(* submit_snark, get_snark, list_snarks and delete_snark, the start-up     *)
(* sequence of main, the RwLock around the NockApp handle, and the noun    *)
(* codec string_to_cord / string_list_to_noun.                             *)
(*                                                                         *)
(* Text is a sequence of bytes (s.as_bytes()).  An atom is the sequence of *)
(* its base-256 digits, most significant first, without leading zeros, so  *)
(* that two atoms are equal exactly when the integers are equal; machine   *)
(* integers (u128, u64) are digit vectors of their fixed width.            *)
(* An Option is a sequence of length at most one: <<>> is None.            *)
(***************************************************************************)
EXTENDS Integers, Sequences, FiniteSets

VARIABLES
    mainPc,      \* position of main
    initResult,  \* Option: whether the %init poke returned Ok
    lock,        \* the RwLock: [writer: 0 or a request, readers: set of requests]
    pc,          \* per request: "idle", "waiting", "poking", "done"
    op,          \* per request: "none", "submit", "get", "list", "delete"
    submission,  \* per request: Option of the SnarkSubmission of a submit
    poke_slab,   \* per request: Option of the root noun of the handler's slab
    outcome,     \* per request: Option of the result of app.poke
    response,    \* per request: Option of the Response returned
    log,         \* what the kernel handle has seen: poke calls and returns
    input,       \* codec: the arguments handed to the codec function
    output       \* codec: Option of the nouns it returned

gatewayVars == <<mainPc, initResult, lock, pc, op, submission, poke_slab,
                 outcome, response, log>>
codecVars == <<input, output>>
vars == <<mainPc, initResult, lock, pc, op, submission, poke_slab,
          outcome, response, log, input, output>>

(***************************************************************************)
(* Bounds of the model.                                                    *)
(***************************************************************************)
NumRequests == 2
MaxId == 1
MaxEffects == 1
MaxPad == 16
MaxList == 2

Requests == 1..NumRequests
Ids == 1..MaxId
None == <<>>
Some(x) == <<x>>

(***************************************************************************)
(* Nouns.                                                                  *)
(***************************************************************************)
RECURSIVE StripZeros(_)
StripZeros(digits) ==
    IF digits = <<>> THEN <<>>
    ELSE IF Head(digits) = 0 THEN StripZeros(Tail(digits))
    ELSE digits

\* D(x) for a machine integer given as its digit vector
D(digits) == [atom |-> StripZeros(digits)]
\* D(b"..." as &[u8]) for a tag or a byte string
DBytes(name) == [bytes |-> name]
\* T(slab, &[a, b]): one cell
Cell(a, b) == [head |-> a, tail |-> b]
\* T(slab, &[x1, ..., xn]): the right-nested tuple [x1 [x2 ... xn]]
RECURSIVE T(_)
T(nouns) ==
    IF Len(nouns) = 1 THEN nouns[1]
    ELSE Cell(Head(nouns), T(Tail(nouns)))

(***************************************************************************)
(* string_to_cord (lines 251-263).                                         *)
(***************************************************************************)
U128Bytes == 16
U64Bytes == 8
TakeLimit == 16

Zeros(n) == [i \in 1..n |-> 0]
\* iter().take(n)
Take(bytes, n) == SubSeq(bytes, 1, IF Len(bytes) < n THEN Len(bytes) ELSE n)
\* (result << 8) | byte as u128, on the 16-digit vector
ShiftOr(result, byte) == Append(Tail(result), byte)
RECURSIVE Accumulate(_, _)
Accumulate(result, bytes) ==
    IF bytes = <<>> THEN result
    ELSE Accumulate(ShiftOr(result, Head(bytes)), Tail(bytes))
\* result as u64: the low 8 digits
AsU64(result) == SubSeq(result, U128Bytes - U64Bytes + 1, U128Bytes)

Reverse(s) == [i \in 1..Len(s) |-> s[Len(s) + 1 - i]]
\* the bytes are accumulated least significant first
string_to_cord_le(s) ==
    IF s = <<>> THEN D(<<0>>)
    ELSE D(AsU64(Accumulate(Zeros(U128Bytes), Reverse(Take(s, TakeLimit)))))
string_to_cord(s) ==
    IF s = <<>> THEN D(<<0>>)
    ELSE D(AsU64(Accumulate(Zeros(U128Bytes), Take(s, TakeLimit))))

(***************************************************************************)
(* string_list_to_noun (lines 265-277).                                    *)
(***************************************************************************)
RECURSIVE BuildList(_, _)
\* the loop over strings.iter().rev(): rest is what is still to be visited,
\* its last element first
BuildList(rest, list) ==
    IF rest = <<>> THEN list
    ELSE BuildList(SubSeq(rest, 1, Len(rest) - 1),
                   T(<<string_to_cord(rest[Len(rest)]), list>>))

\* the loop visits the strings first to last
RECURSIVE BuildListForward(_, _)
BuildListForward(rest, list) ==
    IF rest = <<>> THEN list
    ELSE BuildListForward(Tail(rest), T(<<string_to_cord(Head(rest)), list>>))
string_list_to_noun_forward(strings) ==
    IF strings = <<>> THEN D(<<0>>)
    ELSE BuildListForward(strings, D(<<0>>))
string_list_to_noun(strings) ==
    IF strings = <<>> THEN D(<<0>>)
    ELSE BuildList(strings, D(<<0>>))

(***************************************************************************)
(* Inputs of the requests.                                                 *)
(***************************************************************************)
\* "", "!" (no Base64) and "AAAA" (Base64)
FieldValues == { <<>>, <<33>>, <<65, 65, 65, 65>> }
\* "" and "a"
SubmitterValues == { <<>>, <<97>> }
\* "groth16"
Groth16 == <<103, 114, 111, 116, 104, 49, 54>>

\* SnarkSubmission (lines 33-41)
Submissions ==
    [ proof : FieldValues,
      public_inputs : { <<>> },
      verification_key : FieldValues,
      proof_system : { Groth16 },
      submitter : SubmitterValues,
      notes : { None } ]

\* base64::decode(..).is_err() (lines 114, 117), standard alphabet: the text
\* is a whole number of 4-character groups of alphabet characters
Base64Alphabet == (65..90) \cup (97..122) \cup (48..57) \cup {43, 47}
Base64DecodeIsErr(s) ==
    \/ Len(s) % 4 # 0
    \/ \E i \in 1..Len(s) : s[i] \notin Base64Alphabet

(***************************************************************************)
(* Responses (lines 286-305, 209).                                         *)
(***************************************************************************)
BAD_REQUEST == 400
NOT_FOUND == 404
INTERNAL_SERVER_ERROR == 500
OK == 200
CREATED == 201

error_response(status, message) ==
    [status |-> status, body |-> [error |-> message]]
success_response(status, message) ==
    [status |-> status, body |-> [success |-> TRUE, message |-> message]]
EmptyListResponse ==
    [status |-> OK, body |-> [snarks |-> <<>>, total |-> 0]]

(***************************************************************************)
(* submit_snark, up to the poke (lines 102-143).                           *)
(***************************************************************************)
\* the Base64 checks run before the emptiness checks
ValidateBase64First(sub) ==
    IF Base64DecodeIsErr(sub.proof) /\ sub.proof # <<>>
    THEN Some(error_response(BAD_REQUEST, "Invalid Base64 in proof data"))
    ELSE IF Base64DecodeIsErr(sub.verification_key) /\ sub.verification_key # <<>>
    THEN Some(error_response(BAD_REQUEST, "Invalid Base64 in verification key"))
    ELSE IF sub.proof = <<>>
    THEN Some(error_response(BAD_REQUEST, "Proof data is required"))
    ELSE IF sub.verification_key = <<>>
    THEN Some(error_response(BAD_REQUEST, "Verification key is required"))
    ELSE IF sub.submitter = <<>>
    THEN Some(error_response(BAD_REQUEST, "Submitter is required"))
    ELSE None
\* the submitter check is missing
ValidateNoSubmitter(sub) ==
    IF sub.proof = <<>>
    THEN Some(error_response(BAD_REQUEST, "Proof data is required"))
    ELSE IF sub.verification_key = <<>>
    THEN Some(error_response(BAD_REQUEST, "Verification key is required"))
    ELSE IF Base64DecodeIsErr(sub.proof)
    THEN Some(error_response(BAD_REQUEST, "Invalid Base64 in proof data"))
    ELSE IF Base64DecodeIsErr(sub.verification_key)
    THEN Some(error_response(BAD_REQUEST, "Invalid Base64 in verification key"))
    ELSE None
\* Option of the error response of the validation (lines 102-119)
Validate(sub) ==
    IF sub.proof = <<>>
    THEN Some(error_response(BAD_REQUEST, "Proof data is required"))
    ELSE IF sub.verification_key = <<>>
    THEN Some(error_response(BAD_REQUEST, "Verification key is required"))
    ELSE IF sub.submitter = <<>>
    THEN Some(error_response(BAD_REQUEST, "Submitter is required"))
    ELSE IF Base64DecodeIsErr(sub.proof)
    THEN Some(error_response(BAD_REQUEST, "Invalid Base64 in proof data"))
    ELSE IF Base64DecodeIsErr(sub.verification_key)
    THEN Some(error_response(BAD_REQUEST, "Invalid Base64 in verification key"))
    ELSE None

\* notes.as_deref().unwrap_or("")
UnwrapOrEmpty(opt) == IF opt = None THEN <<>> ELSE opt[1]

\* the verification key is put before the proof
SubmitCauseKeyFirst(sub) ==
    T(<< DBytes("submit-snark"),
         string_to_cord(sub.verification_key),
         string_list_to_noun(sub.public_inputs),
         string_to_cord(sub.proof),
         DBytes(sub.proof_system),
         string_to_cord(sub.submitter),
         string_to_cord(UnwrapOrEmpty(sub.notes)) >>)
\* the %submit-snark cause (lines 126-142)
SubmitCause(sub) ==
    T(<< DBytes("submit-snark"),
         string_to_cord(sub.proof),
         string_list_to_noun(sub.public_inputs),
         string_to_cord(sub.verification_key),
         DBytes(sub.proof_system),
         string_to_cord(sub.submitter),
         string_to_cord(UnwrapOrEmpty(sub.notes)) >>)

\* D(id) for a path id
DId(id) == D(<<id>>)
GetCause(id) == T(<< DBytes("get-snark"), DId(id) >>)
ListCause == DBytes("list-snarks")
DeleteCause(id) == T(<< DBytes("delete-snark"), DId(id) >>)
InitCause == DBytes("init")

(***************************************************************************)
(* The kernel handle: what app.poke can return.                            *)
(***************************************************************************)
Effects == { D(<<1>>) }
RECURSIVE SeqsUpTo(_, _)
SeqsUpTo(S, n) ==
    IF n = 0 THEN { <<>> }
    ELSE LET shorter == SeqsUpTo(S, n - 1)
         IN  shorter \cup { Append(q, x) : q \in shorter, x \in S }
ErrorKinds == { "transport", "rejected", "timeout" }
PokeOk(effects) == [ok |-> TRUE, effects |-> effects, err |-> "none"]
PokeErr(kind) == [ok |-> FALSE, effects |-> <<>>, err |-> kind]
PokeResults ==
    { PokeOk(e) : e \in SeqsUpTo(Effects, MaxEffects) }
        \cup { PokeErr(k) : k \in ErrorKinds }

CallEvent(who) == [ev |-> "call", who |-> who]
RetEvent(who) == [ev |-> "ret", who |-> who]
\* who = 0 is main's %init poke
InitPoker == 0

(***************************************************************************)
(* The effect loop and the match on the poke's result.                     *)
(***************************************************************************)
\* every effect is taken for a response
parse_http_response_echo(effect) ==
    Some([status |-> OK, body |-> [effect |-> effect]])
\* parse_http_response (lines 280-284)
parse_http_response(effect) == None

\* for effect in effects { if let Some(response) = parse(effect) { return } }
RECURSIVE FirstParsed(_)
FirstParsed(effects) ==
    IF effects = <<>> THEN None
    ELSE IF parse_http_response(Head(effects)) # None
    THEN parse_http_response(Head(effects))
    ELSE FirstParsed(Tail(effects))

\* lines 147-162
SubmitMatch(result) ==
    IF result.ok
    THEN IF FirstParsed(result.effects) # None
         THEN FirstParsed(result.effects)[1]
         ELSE success_response(CREATED, "SNARK submitted successfully")
    ELSE error_response(INTERNAL_SERVER_ERROR, "Failed to submit SNARK")

\* lines 178-191
GetMatch(result) ==
    IF result.ok
    THEN IF FirstParsed(result.effects) # None
         THEN FirstParsed(result.effects)[1]
         ELSE error_response(INTERNAL_SERVER_ERROR, "Invalid response from kernel")
    ELSE error_response(NOT_FOUND, "SNARK not found")

\* a failed poke is answered with the empty list
ListMatchSwallow(result) == EmptyListResponse
\* lines 201-215
ListMatch(result) ==
    IF result.ok
    THEN IF FirstParsed(result.effects) # None
         THEN FirstParsed(result.effects)[1]
         ELSE EmptyListResponse
    ELSE error_response(INTERNAL_SERVER_ERROR, "Failed to list SNARKs")

\* effects that are not recognised are an error, as in get_snark
DeleteMatchStrict(result) ==
    IF result.ok
    THEN error_response(INTERNAL_SERVER_ERROR, "Invalid response from kernel")
    ELSE error_response(NOT_FOUND, "SNARK not found")
\* lines 231-244
DeleteMatch(result) ==
    IF result.ok
    THEN IF FirstParsed(result.effects) # None
         THEN FirstParsed(result.effects)[1]
         ELSE success_response(OK, "SNARK deleted")
    ELSE error_response(NOT_FOUND, "SNARK not found")

HandlerMatch(o, result) ==
    CASE o = "submit" -> SubmitMatch(result)
      [] o = "get" -> GetMatch(result)
      [] o = "list" -> ListMatch(result)
      [] o = "delete" -> DeleteMatch(result)

(***************************************************************************)
(* The RwLock of tokio around the handle (lines 91, 341).                  *)
(***************************************************************************)
NoWriter == 0
\* nockapp.write().await is granted
WriteGranted(r) ==
    /\ lock.writer = NoWriter
    /\ lock.readers = {}
    /\ lock' = [lock EXCEPT !.writer = r]
\* nockapp.read().await is granted
ReadGranted(r) ==
    /\ lock.writer = NoWriter
    /\ lock' = [lock EXCEPT !.readers = @ \cup {r}]
\* the guard is dropped
GuardDropped(r) ==
    lock' = [writer |-> IF lock.writer = r THEN NoWriter ELSE lock.writer,
             readers |-> lock.readers \ {r}]
Holds(r) == lock.writer = r \/ r \in lock.readers

\* get_snark takes shared access
GetAcquireShared(r) == ReadGranted(r)
\* submit_snark takes shared access
SubmitAcquireShared(r) == ReadGranted(r)
\* let mut app = nockapp.write().await, per handler
SubmitAcquire(r) == WriteGranted(r)
GetAcquire(r) == WriteGranted(r)
ListAcquire(r) == WriteGranted(r)
DeleteAcquire(r) == WriteGranted(r)
HandlerAcquire(r) ==
    CASE op[r] = "submit" -> SubmitAcquire(r)
      [] op[r] = "get" -> GetAcquire(r)
      [] op[r] = "list" -> ListAcquire(r)
      [] op[r] = "delete" -> DeleteAcquire(r)

\* the guard outlives the handler
GuardLeaked(r) == UNCHANGED lock
\* the guard app goes out of scope when the handler returns
HandlerRelease(r) == GuardDropped(r)

(***************************************************************************)
(* main (lines 311-363).                                                   *)
(***************************************************************************)
GatewayInit ==
    /\ mainPc = "start"
    /\ initResult = None
    /\ lock = [writer |-> NoWriter, readers |-> {}]
    /\ pc = [r \in Requests |-> "idle"]
    /\ op = [r \in Requests |-> "none"]
    /\ submission = [r \in Requests |-> None]
    /\ poke_slab = [r \in Requests |-> None]
    /\ outcome = [r \in Requests |-> None]
    /\ response = [r \in Requests |-> None]
    /\ log = <<>>

\* lines 319-331: the kernel file is found, read and booted, or main returns Err
MainBoot ==
    /\ mainPc = "start"
    /\ \E ok \in BOOLEAN : mainPc' = IF ok THEN "booted" ELSE "exited"
    /\ UNCHANGED <<initResult, lock, pc, op, submission, poke_slab, outcome,
                   response, log, input, output>>

\* lines 334-337: nockapp.poke(init_slab) is called
MainInitPoke ==
    /\ mainPc = "booted"
    /\ mainPc' = "initializing"
    /\ log' = Append(log, CallEvent(InitPoker))
    /\ UNCHANGED <<initResult, lock, pc, op, submission, poke_slab, outcome,
                   response, input, output>>

\* line 337: .await? ; an Err returns from main, the effects of an Ok are
\* dropped unread
MainInitReturn ==
    /\ mainPc = "initializing"
    /\ \E result \in PokeResults :
        /\ initResult' = Some([ok |-> result.ok])
        /\ mainPc' = IF result.ok THEN "initialized" ELSE "exited"
    /\ log' = Append(log, RetEvent(InitPoker))
    /\ UNCHANGED <<lock, pc, op, submission, poke_slab, outcome, response,
                   input, output>>

\* lines 341-360: the lock is built, the listener is bound (or main returns
\* Err) and axum::serve starts to accept requests
MainServe ==
    /\ mainPc = "initialized"
    /\ \E bound \in BOOLEAN : mainPc' = IF bound THEN "serving" ELSE "exited"
    /\ UNCHANGED <<initResult, lock, pc, op, submission, poke_slab, outcome,
                   response, log, input, output>>

\* the server accepts requests as soon as the kernel is booted
AcceptingBeforeInit ==
    mainPc \in {"booted", "initializing", "initialized", "serving"}
\* a request reaches a handler only through axum::serve (line 360)
Accepting == mainPc = "serving"

(***************************************************************************)
(* The handlers.                                                           *)
(***************************************************************************)
\* submit_snark, lines 98-146: validation, then the cause, then write().await
SubmitSnark(r) ==
    /\ Accepting
    /\ pc[r] = "idle"
    /\ \E sub \in Submissions :
        /\ op' = [op EXCEPT ![r] = "submit"]
        /\ submission' = [submission EXCEPT ![r] = Some(sub)]
        /\ IF Validate(sub) # None
           THEN /\ response' = [response EXCEPT ![r] = Validate(sub)]
                /\ pc' = [pc EXCEPT ![r] = "done"]
                /\ UNCHANGED poke_slab
           ELSE /\ poke_slab' = [poke_slab EXCEPT ![r] = Some(SubmitCause(sub))]
                /\ pc' = [pc EXCEPT ![r] = "waiting"]
                /\ UNCHANGED response
    /\ UNCHANGED <<mainPc, initResult, lock, outcome, log, input, output>>

\* get_snark, lines 166-177
GetSnark(r) ==
    /\ Accepting
    /\ pc[r] = "idle"
    /\ \E id \in Ids :
        poke_slab' = [poke_slab EXCEPT ![r] = Some(GetCause(id))]
    /\ op' = [op EXCEPT ![r] = "get"]
    /\ pc' = [pc EXCEPT ![r] = "waiting"]
    /\ UNCHANGED <<mainPc, initResult, lock, submission, outcome, response,
                   log, input, output>>

\* list_snarks, lines 195-200
ListSnarks(r) ==
    /\ Accepting
    /\ pc[r] = "idle"
    /\ poke_slab' = [poke_slab EXCEPT ![r] = Some(ListCause)]
    /\ op' = [op EXCEPT ![r] = "list"]
    /\ pc' = [pc EXCEPT ![r] = "waiting"]
    /\ UNCHANGED <<mainPc, initResult, lock, submission, outcome, response,
                   log, input, output>>

\* delete_snark, lines 219-230
DeleteSnark(r) ==
    /\ Accepting
    /\ pc[r] = "idle"
    /\ \E id \in Ids :
        poke_slab' = [poke_slab EXCEPT ![r] = Some(DeleteCause(id))]
    /\ op' = [op EXCEPT ![r] = "delete"]
    /\ pc' = [pc EXCEPT ![r] = "waiting"]
    /\ UNCHANGED <<mainPc, initResult, lock, submission, outcome, response,
                   log, input, output>>

\* the handler's write().await is granted and it calls app.poke(poke_slab)
\* (lines 146-147, 177-178, 200-201, 230-231)
Poke(r) ==
    /\ pc[r] = "waiting"
    /\ HandlerAcquire(r)
    /\ pc' = [pc EXCEPT ![r] = "poking"]
    /\ log' = Append(log, CallEvent(r))
    /\ UNCHANGED <<mainPc, initResult, op, submission, poke_slab, outcome,
                   response, input, output>>

\* app.poke(..).await returns; the handler matches on the result, returns its
\* response and drops the guard (lines 147-163, 178-192, 201-216, 231-245)
PokeReturn(r) ==
    /\ pc[r] = "poking"
    /\ \E result \in PokeResults :
        /\ outcome' = [outcome EXCEPT ![r] = Some(result)]
        /\ response' = [response EXCEPT ![r] = Some(HandlerMatch(op[r], result))]
    /\ log' = Append(log, RetEvent(r))
    /\ HandlerRelease(r)
    /\ pc' = [pc EXCEPT ![r] = "done"]
    /\ UNCHANGED <<mainPc, initResult, op, submission, poke_slab, input, output>>

\* the gateway alone: the codec is used through the handlers only
NoInput == [kind |-> "none", a |-> <<>>, b |-> <<>>]
Init ==
    /\ GatewayInit
    /\ input = NoInput
    /\ output = None

Next ==
    \/ MainBoot
    \/ MainInitPoke
    \/ MainInitReturn
    \/ MainServe
    \/ \E r \in Requests : SubmitSnark(r)
    \/ \E r \in Requests : GetSnark(r)
    \/ \E r \in Requests : ListSnarks(r)
    \/ \E r \in Requests : DeleteSnark(r)
    \/ \E r \in Requests : Poke(r)
    \/ \E r \in Requests : PokeReturn(r)

Spec == Init /\ [][Next]_vars

(***************************************************************************)
(* Requests whose client disconnects: the server drops the handler's       *)
(* future at the await it is suspended at (line 146 or line 147), and      *)
(* nothing after that await is executed.                                   *)
(***************************************************************************)
\* dropped while suspended in nockapp.write().await: no guard was obtained
CancelWaiting(r) ==
    /\ pc[r] = "waiting"
    /\ pc' = [pc EXCEPT ![r] = "cancelled"]
    /\ UNCHANGED <<mainPc, initResult, lock, op, submission, poke_slab,
                   outcome, response, log, input, output>>

\* dropped while suspended in app.poke(..).await: the future of the poke is
\* dropped, then the guard; the kernel either drops the poke with it or
\* goes on with it on its own
CancelPoking(r) ==
    /\ pc[r] = "poking"
    /\ \E goes_on \in BOOLEAN :
        pc' = [pc EXCEPT ![r] = IF goes_on THEN "detached" ELSE "cancelled"]
    /\ GuardDropped(r)
    /\ UNCHANGED <<mainPc, initResult, op, submission, poke_slab, outcome,
                   response, log, input, output>>

\* the kernel ends a poke whose future was dropped; nobody reads the result
KernelCompletes(r) ==
    /\ pc[r] = "detached"
    /\ pc' = [pc EXCEPT ![r] = "cancelled"]
    /\ log' = Append(log, RetEvent(r))
    /\ UNCHANGED <<mainPc, initResult, lock, op, submission, poke_slab,
                   outcome, response, input, output>>

CancelNext ==
    \/ Next
    \/ \E r \in Requests : CancelWaiting(r)
    \/ \E r \in Requests : CancelPoking(r)
    \/ \E r \in Requests : KernelCompletes(r)

CancelSpec == Init /\ [][CancelNext]_vars

(***************************************************************************)
(* The gateway with a kernel that answers every poke and a lock that is    *)
(* granted fairly.                                                         *)
(***************************************************************************)
FairSpec ==
    /\ Spec
    /\ \A r \in Requests : SF_vars(Poke(r))
    /\ \A r \in Requests : WF_vars(PokeReturn(r))

(***************************************************************************)
(* The codec on its own: string_to_cord and string_list_to_noun applied to *)
(* two texts, or two lists of texts, drawn from bounded sets.              *)
(***************************************************************************)
\* "", NUL, "a", "b" and the two bytes of U+00E9
Prefixes == { <<>>, <<0>>, <<97>>, <<98>>, <<195, 169>> }
Suffixes == { <<>>, <<98>> }
\* a prefix, n times "a", a suffix
TextOf(prefix, n, suffix) == prefix \o [i \in 1..n |-> 97] \o suffix
Texts ==
    { TextOf(p, n, s) : p \in Prefixes, n \in 0..MaxPad, s \in Suffixes }
ListElems ==
    { TextOf(p, n, <<>>) : p \in { <<>>, <<97>>, <<98>> }, n \in {0, U64Bytes} }
Lists == SeqsUpTo(ListElems, MaxList)

\* "AAAA" and "AAAB"
Base64Values == { <<65, 65, 65, 65>>, <<65, 65, 65, 66>> }
\* "plonk"
Plonk == <<112, 108, 111, 110, 107>>
\* submissions that pass the validation, with fields that differ
ValidSubmissions ==
    { sub \in [ proof : Base64Values,
                public_inputs : { <<>>, << <<97>> >>, << <<97>>, <<98>> >> },
                verification_key : Base64Values,
                proof_system : { Groth16, Plonk },
                submitter : { <<97>>, <<98>> },
                notes : { None, Some(<<>>), Some(<<97>>) } ] :
        Validate(sub) = None }

CodecInit ==
    /\ GatewayInit
    /\ output = None
    /\ \/ \E a \in Texts, b \in Texts : input = [kind |-> "text", a |-> a, b |-> b]
       \/ \E a \in Lists, b \in Lists : input = [kind |-> "list", a |-> a, b |-> b]
       \/ \E a \in ValidSubmissions : input = [kind |-> "submit", a |-> a, b |-> a]

\* string_to_cord is applied to both texts
EncodeText ==
    /\ input.kind = "text"
    /\ output = None
    /\ output' = Some(<<string_to_cord(input.a), string_to_cord(input.b)>>)
    /\ UNCHANGED <<gatewayVars, input>>

\* string_list_to_noun is applied to both lists
EncodeList ==
    /\ input.kind = "list"
    /\ output = None
    /\ output' = Some(<<string_list_to_noun(input.a), string_list_to_noun(input.b)>>)
    /\ UNCHANGED <<gatewayVars, input>>

\* the cause of submit_snark is built from a validated submission
BuildSubmitCause ==
    /\ input.kind = "submit"
    /\ output = None
    /\ output' = Some(<<SubmitCause(input.a)>>)
    /\ UNCHANGED <<gatewayVars, input>>

CodecNext ==
    \/ EncodeText
    \/ EncodeList
    \/ BuildSubmitCause

CodecSpec == CodecInit /\ [][CodecNext]_vars

(***************************************************************************)
(* Properties of the gateway.                                              *)
(***************************************************************************)
\* the pokes in flight: called and not yet returned
InFlight ==
    {r \in Requests : pc[r] = "poking"}
        \cup (IF mainPc = "initializing" THEN {InitPoker} ELSE {})
Positions(e) == {i \in 1..Len(log) : log[i] = e}
Done(r) == pc[r] = "done"
Status(r) == response[r][1].status

\* C1: at most one poke is in flight at any time, and the handler whose
\* poke is in flight, a get or a list as much as a submit or a delete, holds
\* the lock as its only holder, as a writer.
C1_AtMostOneInFlight ==
    /\ Cardinality(InFlight) <= 1
    /\ \A r \in Requests :
        pc[r] = "poking" => lock = [writer |-> r, readers |-> {}]
C1_Witness ==
    \E r1, r2 \in Requests :
        /\ op[r1] = "get" /\ pc[r1] = "poking"
        /\ op[r2] = "list" /\ pc[r2] = "waiting"

\* C2: the calls and returns seen by the handle alternate, each return
\* being that of the call before it, every completed valid submit has been
\* called exactly once and has returned exactly once, and when all the
\* requests are completed valid submits the handle has seen exactly one
\* call per request.
C2_ValidSubmit(r) ==
    op[r] = "submit" /\ Validate(submission[r][1]) = None
C2_Serialized ==
    /\ \A i \in 1..Len(log) :
        IF i % 2 = 1 THEN log[i].ev = "call"
        ELSE log[i] = RetEvent(log[i - 1].who)
    /\ \A r \in Requests :
        (C2_ValidSubmit(r) /\ Done(r)) =>
            /\ Cardinality(Positions(CallEvent(r))) = 1
            /\ Cardinality(Positions(RetEvent(r))) = 1
    /\ (\A r \in Requests : C2_ValidSubmit(r) /\ Done(r)) =>
        Cardinality({i \in 1..Len(log) :
            log[i].ev = "call" /\ log[i].who \in Requests}) = NumRequests
C2_Witness ==
    /\ \A r \in Requests : C2_ValidSubmit(r) /\ Done(r)
    /\ \E r \in Requests : outcome[r][1].ok

\* C3: the %init poke is called at most once; a request is accepted or
\* poked only after the %init poke was the first call, has returned, and
\* returned Ok; when it returns Err main has exited, no request was ever
\* accepted and the handle has seen nothing but the %init poke.
C3_InitDone ==
    /\ Len(log) >= 2
    /\ log[1] = CallEvent(InitPoker)
    /\ log[2] = RetEvent(InitPoker)
    /\ initResult # None
    /\ initResult[1].ok
C3_InitFirst ==
    /\ Cardinality(Positions(CallEvent(InitPoker))) <= 1
    /\ mainPc \in {"initialized", "serving"} => C3_InitDone
    /\ (\E r \in Requests : pc[r] # "idle") => C3_InitDone
    /\ (\E i \in 1..Len(log) : log[i].who # InitPoker) => C3_InitDone
    /\ (initResult # None /\ ~initResult[1].ok) =>
        /\ mainPc = "exited"
        /\ \A r \in Requests : pc[r] = "idle"
        /\ log = <<CallEvent(InitPoker), RetEvent(InitPoker)>>
C3_Witness ==
    \E r \in Requests : Positions(CallEvent(r)) # {}

\* C4: the response to an invalid submission is the 400 error with the
\* message of the first violated check in the order proof non-empty,
\* verification key non-empty, submitter non-empty, proof Base64,
\* verification key Base64, whatever later checks fail as well.
C4_Checks(sub) ==
    << [ok |-> sub.proof # <<>>, msg |-> "Proof data is required"],
       [ok |-> sub.verification_key # <<>>, msg |-> "Verification key is required"],
       [ok |-> sub.submitter # <<>>, msg |-> "Submitter is required"],
       [ok |-> ~Base64DecodeIsErr(sub.proof), msg |-> "Invalid Base64 in proof data"],
       [ok |-> ~Base64DecodeIsErr(sub.verification_key),
        msg |-> "Invalid Base64 in verification key"] >>
C4_Violated(sub) == {i \in 1..5 : ~C4_Checks(sub)[i].ok}
C4_First(sub) ==
    CHOOSE i \in C4_Violated(sub) : \A j \in C4_Violated(sub) : i <= j
C4_FirstViolation ==
    \A r \in Requests :
        (op[r] = "submit" /\ C4_Violated(submission[r][1]) # {}) =>
            /\ Done(r)
            /\ response[r] = Some([status |-> 400,
                   body |-> [error |->
                       C4_Checks(submission[r][1])[C4_First(submission[r][1])].msg]])
C4_Witness ==
    \E r \in Requests :
        /\ op[r] = "submit" /\ Done(r)
        /\ submission[r][1].proof = <<33>>
        /\ submission[r][1].verification_key = <<>>
        /\ response[r][1].body.error = "Verification key is required"

\* C5: a submission that fails validation is answered 400 (an empty proof
\* with "Proof data is required") without a cause being built, without the
\* request ever waiting for or holding the lock and without a poke; the
\* step that answers it leaves the lock and the handle's log as they were,
\* and it can be taken whenever the request is accepted, whoever holds the
\* lock.
C5_Invalid(sub) ==
    \/ sub.proof = <<>>
    \/ sub.verification_key = <<>>
    \/ sub.submitter = <<>>
    \/ Base64DecodeIsErr(sub.proof)
    \/ Base64DecodeIsErr(sub.verification_key)
C5_Rejected(r) ==
    /\ SubmitSnark(r)
    /\ C5_Invalid(submission'[r][1])
    /\ pc'[r] = "done"
C5_NoDispatch ==
    /\ \A r \in Requests :
        (op[r] = "submit" /\ C5_Invalid(submission[r][1])) =>
            /\ Done(r)
            /\ Status(r) = 400
            /\ submission[r][1].proof = <<>> =>
                response[r][1].body.error = "Proof data is required"
            /\ poke_slab[r] = None
            /\ outcome[r] = None
            /\ ~Holds(r)
            /\ \A i \in 1..Len(log) : log[i].who # r
    /\ \A r \in Requests :
        (Accepting /\ pc[r] = "idle") => ENABLED C5_Rejected(r)
C5_ValidationShortCircuit ==
    /\ []C5_NoDispatch
    /\ [][\A r \in Requests :
            (pc[r] = "idle" /\ pc'[r] = "done") =>
                (lock' = lock /\ log' = log /\ outcome' = outcome)]_vars
C5_Witness ==
    \E r1, r2 \in Requests :
        /\ op[r1] = "submit" /\ Done(r1) /\ Status(r1) = 400
        /\ submission[r1][1].proof = <<>>
        /\ pc[r2] = "poking" /\ lock.writer = r2
        /\ log[Len(log)] = CallEvent(r2)

\* C6: a handler that has produced its response, from a poke that
\* returned Ok or Err, no longer holds the lock; the lock is held only by a
\* request whose poke is in flight.
C6_LockReleased ==
    /\ \A r \in Requests : Done(r) => ~Holds(r)
    /\ \A r \in Requests : Holds(r) => pc[r] = "poking"
    /\ lock.writer # NoWriter => pc[lock.writer] = "poking"
C6_Witness ==
    \E r1, r2 \in Requests :
        /\ op[r1] = "delete" /\ Done(r1) /\ ~outcome[r1][1].ok
        /\ Done(r2) /\ outcome[r2] # None /\ outcome[r2][1].ok
        /\ lock.writer = NoWriter

\* C9: a poke that fails with a transport failure or a timeout is answered
\* with a server error (5xx), and 404 is answered only to a poke rejected
\* by the kernel, for every operation.
C9_ErrorsMappedByKind ==
    \A r \in Requests :
        (Done(r) /\ outcome[r] # None /\ ~outcome[r][1].ok) =>
            /\ outcome[r][1].err \in {"transport", "timeout"} =>
                (Status(r) >= 500 /\ Status(r) <= 599)
            /\ Status(r) = 404 => outcome[r][1].err = "rejected"

\* C10: a get is answered with 200 or with 404 and no other status.
C10_GetAnswers200Or404 ==
    \A r \in Requests :
        (op[r] = "get" /\ Done(r)) => Status(r) \in {200, 404}

(***************************************************************************)
(* Properties of the codec.                                                *)
(***************************************************************************)
\* C7: string_to_cord is injective: two different texts, the empty text,
\* texts longer than 8 or 16 bytes and texts with multi-byte characters
\* among them, never have the same cord.
C7_TextInjective ==
    (input.kind = "text" /\ output # None /\ input.a # input.b) =>
        output[1][1] # output[1][2]

\* C8: string_list_to_noun is injective, as it must be for a decoder to
\* give back the list with its length, elements and order: two different
\* lists of texts never have the same noun.
C8_ListInjective ==
    (input.kind = "list" /\ output # None /\ input.a # input.b) =>
        output[1][1] # output[1][2]

(***************************************************************************)
(* Properties of the responses.                                            *)
(***************************************************************************)
PokeOkFor(r) == outcome[r] # None /\ outcome[r][1].ok
PokeErrFor(r) == outcome[r] # None /\ ~outcome[r][1].ok

\* C11: a valid submission whose poke returns Ok is answered 201 with a
\* body that has success = true and an id that is not null.
C11_CreatedWithId ==
    \A r \in Requests :
        (op[r] = "submit" /\ Done(r) /\ PokeOkFor(r)) =>
            /\ Status(r) = 201
            /\ "success" \in DOMAIN response[r][1].body
            /\ response[r][1].body.success
            /\ "id" \in DOMAIN response[r][1].body
            /\ response[r][1].body.id # None

\* C13: whenever the poke of a submit, get, list or delete returns Err,
\* the response is an error response, with a 4xx or 5xx status and an error
\* message, and not an acknowledgment, a detail record or a list.
C13_ErrorsReported ==
    \A r \in Requests :
        (Done(r) /\ PokeErrFor(r)) =>
            /\ Status(r) >= 400 /\ Status(r) <= 599
            /\ DOMAIN response[r][1].body = {"error"}
            /\ response[r][1].body.error # ""
C13_Witness ==
    \E r1, r2 \in Requests :
        /\ op[r1] = "list" /\ Done(r1) /\ PokeErrFor(r1) /\ Status(r1) = 500
        /\ op[r2] = "submit" /\ Done(r2) /\ PokeErrFor(r2) /\ Status(r2) = 500

\* C14: when the poke returns Ok and none of its effects, if any, is
\* recognised, submit answers 201 with a success acknowledgment, delete
\* answers 200 with a success acknowledgment and list answers 200 with an
\* empty list and total 0.
C14_NoneRecognised(r) ==
    /\ PokeOkFor(r)
    /\ \A i \in 1..Len(outcome[r][1].effects) :
        parse_http_response(outcome[r][1].effects[i]) = None
C14_Acknowledged(r, status) ==
    /\ Status(r) = status
    /\ DOMAIN response[r][1].body = {"success", "message"}
    /\ response[r][1].body.success
C14_Fallback ==
    \A r \in Requests :
        (Done(r) /\ C14_NoneRecognised(r)) =>
            /\ op[r] = "submit" => C14_Acknowledged(r, 201)
            /\ op[r] = "delete" => C14_Acknowledged(r, 200)
            /\ op[r] = "list" =>
                response[r][1] = [status |-> 200, body |-> [snarks |-> <<>>, total |-> 0]]
C14_Witness ==
    \E r1, r2 \in Requests :
        /\ op[r1] = "delete" /\ Done(r1) /\ PokeOkFor(r1)
        /\ outcome[r1][1].effects # <<>> /\ Status(r1) = 200
        /\ op[r2] = "submit" /\ Done(r2) /\ PokeOkFor(r2)
        /\ outcome[r2][1].effects = <<>> /\ Status(r2) = 201

\* C19: the response depends only on the operation, on the result of the
\* request's own validation and on whether its poke returned Ok or Err: two
\* requests that agree on these three have the same response, whatever the
\* effects returned to each and whatever was poked before each; a list
\* whose poke returned Ok is answered with the empty list and total 0.
C19_ValidationResult(r) ==
    IF op[r] = "submit" /\ C4_Violated(submission[r][1]) # {}
    THEN C4_First(submission[r][1])
    ELSE 0
C19_DispatchStatus(r) ==
    IF outcome[r] = None THEN "none"
    ELSE IF outcome[r][1].ok THEN "ok" ELSE "err"
RECURSIVE TailN(_, _)
TailN(n, k) == IF k = 0 THEN n ELSE TailN(n.tail, k - 1)
IsCell(n) == DOMAIN n = {"head", "tail"}
ZeroAtom == [atom |-> <<>>]

\* C15: the cause of a validated submission is the tuple of the tag
\* submit-snark, the proof, the list of public inputs, the verification key,
\* the proof system, the submitter and the notes, in this order whatever the
\* values of the fields; notes that are absent are the atom 0.
C15_CauseLayout ==
    (input.kind = "submit" /\ output # None) =>
        LET c == output[1][1]
            sub == input.a
        IN  /\ \A k \in 0..5 : IsCell(TailN(c, k))
            /\ TailN(c, 0).head = [bytes |-> "submit-snark"]
            /\ TailN(c, 1).head = string_to_cord(sub.proof)
            /\ TailN(c, 2).head = string_list_to_noun(sub.public_inputs)
            /\ TailN(c, 3).head = string_to_cord(sub.verification_key)
            /\ TailN(c, 4).head = [bytes |-> sub.proof_system]
            /\ TailN(c, 5).head = string_to_cord(sub.submitter)
            /\ TailN(c, 6) =
                string_to_cord(IF sub.notes = None THEN <<>> ELSE sub.notes[1])
            /\ sub.notes = None => TailN(c, 6) = ZeroAtom
C15_Witness ==
    /\ input.kind = "submit" /\ output # None
    /\ input.a.proof # input.a.verification_key
    /\ input.a.public_inputs # <<>>
    /\ input.a.notes = None

\* C16: the noun of a list of n texts is n nested cells, the head of the
\* i-th being the cord of the i-th text, ended by the atom 0; the noun of
\* the empty list is the atom 0.
C16_ListOf(n, L) ==
    /\ \A i \in 1..Len(L) :
        /\ IsCell(TailN(n, i - 1))
        /\ TailN(n, i - 1).head = string_to_cord(L[i])
    /\ TailN(n, Len(L)) = ZeroAtom
C16_RightNested ==
    (input.kind = "list" /\ output # None) =>
        /\ C16_ListOf(output[1][1], input.a)
        /\ C16_ListOf(output[1][2], input.b)
        /\ input.a = <<>> => output[1][1] = ZeroAtom
C16_Witness ==
    /\ input.kind = "list" /\ output # None
    /\ Len(input.a) = 2 /\ input.a[1] # input.a[2]
    /\ string_to_cord(input.a[1]) # string_to_cord(input.a[2])
    /\ input.b = <<>>

\* C17: the cord of a text of at most 8 bytes is the integer written by
\* its bytes, most significant first (the digits of the atom are the bytes
\* without their leading zero bytes), the cord of the empty text is 0, equal
\* texts have equal cords and every cord fits in 64 bits.
C17_BigEndianOf(cord, s) ==
    /\ cord.atom = <<>> \/ cord.atom[1] # 0
    /\ \E k \in 0..Len(s) :
        /\ \A i \in 1..k : s[i] = 0
        /\ cord.atom = SubSeq(s, k + 1, Len(s))
C17_BigEndian ==
    (input.kind = "text" /\ output # None) =>
        /\ Len(input.a) <= 8 => C17_BigEndianOf(output[1][1], input.a)
        /\ Len(input.b) <= 8 => C17_BigEndianOf(output[1][2], input.b)
        /\ input.a = <<>> => output[1][1] = ZeroAtom
        /\ input.a = input.b => output[1][1] = output[1][2]
        /\ Len(output[1][1].atom) <= 8 /\ Len(output[1][2].atom) <= 8
C17_Witness ==
    /\ input.kind = "text" /\ output # None
    /\ Len(input.a) = 8 /\ input.a[1] = 195 /\ input.a[8] = 98
    /\ input.b = <<>>

(***************************************************************************)
(* Properties of cancellation and of progress.                             *)
(***************************************************************************)
\* C12: a request whose client disconnected while it waited for the lock
\* or for the reply of the kernel has had its poke called and returned all
\* the same, and does not hold the lock.
C12_CancelKeepsDispatch ==
    \A r \in Requests :
        pc[r] = "cancelled" =>
            /\ Positions(CallEvent(r)) # {}
            /\ Positions(RetEvent(r)) # {}
            /\ ~Holds(r)

\* C18: every request that waits for the lock or for the kernel is
\* eventually answered, a response once given never changes and is given
\* exactly when the handler is done, no request is poked twice, and as long
\* as a request waits or pokes some handler can take a step.
C18_Pending(r) == pc[r] \in {"waiting", "poking"}
C18_Progress ==
    /\ \A r \in Requests : C18_Pending(r) ~> Done(r)
    /\ [](\A r \in Requests :
            /\ Done(r) <=> response[r] # None
            /\ Cardinality(Positions(CallEvent(r))) <= 1)
    /\ []((\E r \in Requests : C18_Pending(r)) =>
            ENABLED (\E r \in Requests : Poke(r) \/ PokeReturn(r)))
    /\ [][\A r \in Requests :
            response[r] # None => response'[r] = response[r]]_vars
C18_Witness ==
    /\ \A r \in Requests : Done(r) /\ Positions(CallEvent(r)) # {}
    /\ \E r1, r2 \in Requests :
        /\ r1 # r2 /\ op[r1] = "submit" /\ op[r2] = "get"
        /\ \A i \in Positions(RetEvent(r1)), j \in Positions(CallEvent(r2)) : i < j

====
